---------------------------- MODULE Spec2Model ----------------------------
(***************************************************************************)
(* Model of sal-cli: the MCP resolver (mcp.py), the project configuration  *)
(* reconciler (config.py), the launch orchestrator (launcher.py) and the   *)
(* CLI commands that drive them (cli.py).                                  *)
(*                                                                         *)
(* Strings that the program splits are sequences of lexemes: a lexeme is   *)
(* a word (a non-empty run of characters holding no comma and no           *)
(* whitespace), the comma "," or the blank " ".  Join turns a sequence of  *)
(* lexemes into the atomic string used as a dictionary key.  An optional   *)
(* value is a sequence of length at most one: <<>> is Python's None.       *)
(*                                                                         *)
(* The registries are restricted to three of the nine servers of the       *)
(* source (gmail, google-calendar, airtable), their shortcuts, and the     *)
(* profiles "start" and "google" (the latter cut to the modelled servers). *)
(***************************************************************************)
EXTENDS Integers, Sequences, FiniteSets, TLC

VARIABLES
    dirs,           \* the directories that exist on disk
    configFile,     \* ~/.sal/config.json
    shortcutsFile,  \* ~/.sal/shortcuts.json (user overrides; {} when absent)
    profilesFile,   \* ~/.sal/profiles.json  (user overrides; {} when absent)
    mcpFile,        \* ~/.sal/mcp.json       (the server definitions)
    claudeFile,     \* ~/.claude.json        (the shared host configuration)
    last,           \* what the last invocation was given, did and returned
    flags,          \* the days whose ~/.sal/.start-of-day-ran-<day> file exists
    today,          \* datetime.date.today(), as a day number
    routine,        \* where a running cmd_start_of_day is, and what it has done
    procs           \* the concurrent calls of set_project_mcp_servers

vars == <<dirs, configFile, shortcutsFile, profilesFile, mcpFile, claudeFile, last,
          flags, today, routine, procs>>

\* What the launch commands leave alone.
others == <<flags, today, routine, procs>>

files == <<configFile, shortcutsFile, profilesFile, mcpFile, claudeFile>>

-----------------------------------------------------------------------------
(* Bounds of the model.                                                    *)

MaxArgLen == 5      \* lexemes in a raw argument handed to the resolver

MaxNames == 3       \* names in a list handed to validate_servers

-----------------------------------------------------------------------------
(* Generic helpers.                                                        *)

None == <<>>

Some(v) == <<v>>

Range(s) == {s[i] : i \in DOMAIN s}

EmptyMap == [k \in {} |-> ""]

RECURSIVE Flatten(_)
Flatten(ss) == IF ss = <<>> THEN <<>> ELSE Head(ss) \o Flatten(Tail(ss))

SeqsUpTo(S, n) == UNION {[1..k -> S] : k \in 0..n}

\* Every order in which the members of a set can be listed.
RECURSIVE Orders(_)
Orders(S) ==
    IF S = {} THEN {<<>>}
    ELSE UNION {{<<x>> \o t : t \in Orders(S \ {x})} : x \in S}

IsSubsequence(sub, s, keep(_)) ==
    sub = SelectSeq(s, keep)

-----------------------------------------------------------------------------
(* Python string operations on lexeme sequences.                           *)

COMMA == ","

BLANK == " "

\* The atomic string a lexeme sequence spells.
RECURSIVE Join(_)
Join(lex) == IF lex = <<>> THEN "" ELSE Head(lex) \o Join(Tail(lex))

\* str.split(","): the pieces between the commas, empty pieces included.
RECURSIVE SplitComma(_)
SplitComma(lex) ==
    IF \A i \in DOMAIN lex : lex[i] # COMMA THEN <<lex>>
    ELSE LET i == CHOOSE j \in DOMAIN lex :
                      /\ lex[j] = COMMA
                      /\ \A k \in 1..(j - 1) : lex[k] # COMMA
         IN  <<SubSeq(lex, 1, i - 1)>> \o SplitComma(SubSeq(lex, i + 1, Len(lex)))

\* str.strip(): leading and trailing whitespace removed.
RECURSIVE Strip(_)
Strip(lex) ==
    IF lex = <<>> THEN <<>>
    ELSE IF Head(lex) = BLANK THEN Strip(Tail(lex))
    ELSE IF lex[Len(lex)] = BLANK THEN Strip(SubSeq(lex, 1, Len(lex) - 1))
    ELSE lex

\* ",".join(items) for a list of strings.
RECURSIVE JoinComma(_)
JoinComma(items) ==
    IF items = <<>> THEN <<>>
    ELSE IF Len(items) = 1 THEN items[1]
    ELSE items[1] \o <<COMMA>> \o JoinComma(Tail(items))

-----------------------------------------------------------------------------
(* shortcuts.py and the defaults of config.py.                             *)

DEFAULT_SHORTCUTS ==
    ("gm" :> "gmail") @@ ("cal" :> "google-calendar") @@ ("at" :> "airtable")

DEFAULT_PROFILES ==
    ("start" :> <<"at", "gm", "cal">>) @@ ("google" :> <<"gm", "cal">>)

\* The opaque launch specification of a server: only its script is kept.
DEFAULT_MCP_SERVERS ==
    ("gmail" :> [type |-> "stdio", args |-> "gmail_mcp_server.py"]) @@
    ("google-calendar" :> [type |-> "stdio", args |-> "calendar_mcp_server.py"]) @@
    ("airtable" :> [type |-> "stdio", args |-> "airtable_mcp_server.py"])

HOME_SAL == "~/.sal"

DEFAULT_CLAUDE_DIR == "~/sal/desktop"

DEFAULT_CONFIG ==
    [default_profile |-> None, claude_dir |-> DEFAULT_CLAUDE_DIR, skip_permissions |-> TRUE]

-----------------------------------------------------------------------------
(* config.py: the readers of the registries.                               *)

\* dict.update: the entries of over replace or extend those of base.
Update(base, over) ==
    [k \in DOMAIN base \cup DOMAIN over |-> IF k \in DOMAIN over THEN over[k] ELSE base[k]]

load_shortcuts == Update(DEFAULT_SHORTCUTS, shortcutsFile)

load_profiles == Update(DEFAULT_PROFILES, profilesFile)

load_config == IF configFile.exists THEN configFile.data ELSE DEFAULT_CONFIG

\* init_mcp_config, save_json_file, ensure_config_dir: the defaults are written
\* when mcp.json is absent, creating ~/.sal on the way.
McpFileAfterInit ==
    IF mcpFile.exists THEN mcpFile ELSE [exists |-> TRUE, mcpServers |-> DEFAULT_MCP_SERVERS]

DirsAfterInit(d) == IF mcpFile.exists THEN d ELSE d \cup {HOME_SAL}

\* load_mcp_config().get("mcpServers", {}), read after init_mcp_config.
load_mcp_servers == McpFileAfterInit.mcpServers

-----------------------------------------------------------------------------
(* mcp.py: the resolver.                                                   *)

get_available_servers == DOMAIN load_mcp_servers

resolve_shortcut(shortcut) ==
    IF shortcut \in DOMAIN load_shortcuts THEN load_shortcuts[shortcut] ELSE shortcut

\* A resolve_profile that returns the profile's members as written.
resolve_profile_unresolved(profile_name) ==
    IF profile_name \in DOMAIN load_profiles THEN load_profiles[profile_name] ELSE <<>>

resolve_profile(profile_name) ==
    LET shortcuts == IF profile_name \in DOMAIN load_profiles
                     THEN load_profiles[profile_name] ELSE <<>>
    IN  [i \in DOMAIN shortcuts |-> resolve_shortcut(shortcuts[i])]

\* The loop of parse_mcp_arg over mcp_arg.split(","): one item's contribution.
ExpandItem(piece) ==
    LET item == Join(Strip(piece))
    IN  IF item = "" THEN <<>>
        ELSE IF item \in DOMAIN load_profiles THEN resolve_profile(item)
        ELSE <<resolve_shortcut(item)>>

ExpandArg(mcp_arg) ==
    LET pieces == SplitComma(mcp_arg)
    IN  Flatten([i \in DOMAIN pieces |-> ExpandItem(pieces[i])])

\* A de-duplication that keeps the last occurrence of a name, not the first.
RECURSIVE UniqueKeepLast(_)
UniqueKeepLast(servers) ==
    IF servers = <<>> THEN <<>>
    ELSE LET rest == UniqueKeepLast(Tail(servers))
         IN  IF Head(servers) \in Range(rest) THEN rest ELSE <<Head(servers)>> \o rest

\* "Remove duplicates while preserving order".
RECURSIVE Unique(_)
Unique(servers) ==
    IF servers = <<>> THEN <<>>
    ELSE LET front == Unique(SubSeq(servers, 1, Len(servers) - 1))
             s == servers[Len(servers)]
         IN  IF s \in Range(front) THEN front ELSE Append(front, s)

parse_mcp_arg(mcp_arg) == Unique(ExpandArg(mcp_arg))

\* A validate_servers that checks against the built-in definitions, not mcp.json.
validate_servers_builtin(server_names) ==
    LET isValid(server) == server \in DOMAIN DEFAULT_MCP_SERVERS
        isInvalid(server) == server \notin DOMAIN DEFAULT_MCP_SERVERS
    IN  [valid |-> SelectSeq(server_names, isValid),
         invalid |-> SelectSeq(server_names, isInvalid)]

validate_servers(server_names) ==
    LET available == get_available_servers
        isValid(server) == server \in available
        isInvalid(server) == server \notin available
    IN  [valid |-> SelectSeq(server_names, isValid),
         invalid |-> SelectSeq(server_names, isInvalid)]

-----------------------------------------------------------------------------
(* config.py: the project configuration reconciler.                        *)

\* The entry set_project_mcp_servers creates for a project it has not seen.
FRESH_PROJECT ==
    [allowedTools |-> <<>>, mcpContextUris |-> <<>>, mcpServers |-> EmptyMap,
     enabledMcpjsonServers |-> <<>>, disabledMcpjsonServers |-> <<>>,
     hasTrustDialogAccepted |-> TRUE, ignorePatterns |-> <<>>]

\* load_claude_config: an absent file reads as {}, and so does a file that
\* json.load rejects (the JSONDecodeError is caught).
load_claude_config ==
    IF claudeFile.exists /\ claudeFile.parseable THEN claudeFile.data ELSE EmptyMap

\* save_claude_config, when nothing else has the file open: the file holds the
\* dumped configuration.
Saved(claude_config) == [exists |-> TRUE, parseable |-> TRUE, data |-> claude_config]

ProjectsOf(claude_config) ==
    IF "projects" \in DOMAIN claude_config THEN claude_config.projects ELSE EmptyMap

\* A ProjectOf that starts every time from the initial entry.
ProjectOf_fresh(claude_config, project_key) == FRESH_PROJECT

\* claude_config["projects"][project_key], initialised when missing.
ProjectOf(claude_config, project_key) ==
    IF project_key \in DOMAIN ProjectsOf(claude_config)
    THEN ProjectsOf(claude_config)[project_key] ELSE FRESH_PROJECT

\* project.get("disabledMcpServers", [])
DisabledOf(project) ==
    IF "disabledMcpServers" \in DOMAIN project THEN project.disabledMcpServers ELSE <<>>

\* A disabled_servers that does not first remove the known servers.
disabled_servers_stale(project, all_servers, enabled_servers) ==
    Range(DisabledOf(project))
        \cup {server_name \in DOMAIN all_servers : server_name \notin Range(enabled_servers)}

\* A disabled_servers that overwrites the existing list.
disabled_servers_overwrite(project, all_servers, enabled_servers) ==
    {server_name \in DOMAIN all_servers : server_name \notin Range(enabled_servers)}

\* The set disabled_servers that set_project_mcp_servers builds: the existing
\* entries, less every known server, plus the known servers not enabled.
disabled_servers(project, all_servers, enabled_servers) ==
    LET enabled_set == Range(enabled_servers)
        existing == Range(DisabledOf(project))
        cleared == existing \ DOMAIN all_servers
    IN  cleared \cup {server_name \in DOMAIN all_servers : server_name \notin enabled_set}

\* project["mcpServers"] = all_server_configs: a copy of every definition.
all_server_configs(all_servers) ==
    [server_name \in DOMAIN all_servers |-> all_servers[server_name]]

\* A ProjectAfter that makes available only the servers that auto-start.
ProjectAfter_enabled_only(project, all_servers, order) ==
    Update(project,
           ("mcpServers" :> [server_name \in DOMAIN all_servers \ Range(order)
                                |-> all_servers[server_name]]) @@
           ("disabledMcpServers" :> order))

\* The project entry after the call; order is the list that list(disabled_servers)
\* yields, which Python leaves unspecified for a set.
ProjectAfter(project, all_servers, order) ==
    Update(project, ("mcpServers" :> all_server_configs(all_servers)) @@
                    ("disabledMcpServers" :> order))

\* The configuration set_project_mcp_servers saves.
set_project_mcp_servers(claude_config, all_servers, project_key, order) ==
    LET project == ProjectOf(claude_config, project_key)
        projects == Update(ProjectsOf(claude_config),
                           project_key :> ProjectAfter(project, all_servers, order))
    IN  Update(claude_config, "projects" :> projects)

\* The orders list(disabled_servers) can come out in.
DisabledOrders(project_key, enabled_servers) ==
    Orders(disabled_servers(ProjectOf(load_claude_config, project_key),
                            load_mcp_servers, enabled_servers))

\* What a project's entry makes auto-start: the available servers that are not
\* in its not-auto-start list.
AutoStart(data, project_key) ==
    LET project == ProjectOf(data, project_key)
    IN  DOMAIN project.mcpServers \ Range(DisabledOf(project))

-----------------------------------------------------------------------------
(* What an invocation leaves behind for the properties to read.            *)

NoLast ==
    [op |-> "none",         \* the command or function that ran
     path |-> "",           \* the project directory it worked on
     given |-> None,        \* the MCP selection the user gave, if any
     mcp_arg |-> None,      \* the mcp_arg build_claude_command received
     servers |-> <<>>,      \* what parse_mcp_arg returned
     valid |-> <<>>,        \* what validate_servers returned
     invalid |-> <<>>,
     error |-> None,        \* the error build_claude_command returned
     reconciled |-> FALSE,  \* whether set_project_mcp_servers was called
     log |-> <<>>,          \* the steps taken, in the order taken
     safe_mode |-> FALSE,   \* the safe_mode build_claude_command received
     cmd |-> <<>>,          \* the command vector build_claude_command returned
     spawn |-> None,        \* the assistant process started, if any
     rc |-> 0,              \* the exit status returned (when nothing was raised)
     child |-> "",          \* how the wait for the child ended, if one was started
     raised |-> None,       \* the exception that left the function, if any
     prev_set |-> None]     \* the profile a just-preceding successful cmd_mcp_set stored

\* The profile stored by the invocation that has just ended, when it was a
\* successful cmd_mcp_set of a profile.
JustSet ==
    IF last.op = "cmd_mcp_set" /\ last.rc = 0 /\ Join(last.given[1]) # "none"
    THEN last.given ELSE None

\* What one invocation of cmd_start_of_day was given and did.
NoRun ==
    [day |-> 0,             \* datetime.date.today() when it started
     force |-> FALSE,
     status |-> FALSE,
     calls |-> <<>>,        \* the launch_claude_oneshot calls it made
     outcome |-> "none",    \* the branch it ended in
     warned |-> FALSE,      \* "Warning: Failed to send email report"
     flagged |-> FALSE,     \* flag_file.touch() was reached
     rc |-> 0]              \* its return value (when it returned)

\* No daily routine is running; cur is the invocation that ended last, prev the
\* one before it.
Idle == [pc |-> "idle", cur |-> NoRun, prev |-> NoRun]

\* No concurrent reconcile is running.
NoProcs == <<>>

\* A call of set_project_mcp_servers that has not started.
NotCalled == [pc |-> "idle", project |-> "", enabled |-> <<>>, out |-> EmptyMap, wrote |-> 0]

-----------------------------------------------------------------------------
(* config.py: save_claude_config, as the steps the operating system sees.  *)
(* open(path, "w") empties the file; json.dump fills a buffer that is      *)
(* written from offset 0 when the file is closed.  The text written is as  *)
(* long as json.dump(config, indent=2) makes it.                           *)

RECURSIVE SumOf(_, _)
SumOf(sizes, keys) ==
    IF keys = {} THEN 0
    ELSE LET key == CHOOSE k \in keys : TRUE
         IN  sizes[key] + SumOf(sizes, keys \ {key})

\* A quoted string.
Quoted(str) == Len(str) + 2

\* A list or an object whose items take sizes[k] characters each, opened at
\* indentation indent: "[]" when empty, else the bracket and a newline, each
\* item indented two further and followed by "," (but the last) and a newline,
\* then the closing bracket at indent.
Block(sizes, indent) ==
    IF DOMAIN sizes = {} THEN 2
    ELSE 2 + SumOf(sizes, DOMAIN sizes) + Cardinality(DOMAIN sizes) * (indent + 4) - 1
           + indent + 1

\* "key": value
Member(key, size) == Quoted(key) + 2 + size

StringList(list, indent) == Block([i \in DOMAIN list |-> Quoted(list[i])], indent)

ServerDump(server, indent) ==
    Block([field \in DOMAIN server |-> Member(field, Quoted(server[field]))], indent)

ProjectDump(project, indent) ==
    Block([field \in DOMAIN project |->
              Member(field,
                     CASE field = "mcpServers" ->
                              Block([name \in DOMAIN project.mcpServers |->
                                        Member(name, ServerDump(project.mcpServers[name],
                                                                indent + 4))],
                                    indent + 2)
                       [] field = "hasTrustDialogAccepted" ->
                              (IF project.hasTrustDialogAccepted THEN 4 ELSE 5)
                       [] OTHER -> StringList(project[field], indent + 2))],
          indent)

\* len(json.dumps(config, indent=2))
DumpLen(config) ==
    Block([key \in DOMAIN config |->
              Member(key,
                     IF key = "projects"
                     THEN Block([path \in DOMAIN config.projects |->
                                    Member(path, ProjectDump(config.projects[path], 4))], 2)
                     ELSE Quoted(config[key]))],
          0)

\* The file just after open(path, "w").
Truncated == [exists |-> TRUE, parseable |-> FALSE, data |-> EmptyMap]

\* The length of the file.  An unparseable file with data is the text of data
\* with its beginning overwritten.
FileLen(file) ==
    IF ~file.exists \/ DOMAIN file.data = {} THEN 0 ELSE DumpLen(file.data)

\* The file after the buffered text of config was written from offset 0: the
\* text alone when it covers what the file held, else the text followed by the
\* rest of what the file held, which json.load rejects.
Overwritten(file, config) ==
    IF FileLen(file) <= DumpLen(config)
    THEN [exists |-> TRUE, parseable |-> TRUE, data |-> config]
    ELSE [exists |-> TRUE, parseable |-> FALSE, data |-> file.data]

\* set_project_mcp_servers up to save_claude_config: the definitions and the
\* host configuration are loaded and the configuration to save is built.
reconcile_load(proc, project_key, enabled_servers) ==
    /\ procs[proc].pc = "idle"
    /\ \E order \in DisabledOrders(project_key, enabled_servers) :
           procs' = [procs EXCEPT ![proc] =
                        [NotCalled EXCEPT
                            !.pc = "loaded", !.project = project_key,
                            !.enabled = enabled_servers,
                            !.out = set_project_mcp_servers(load_claude_config,
                                                            load_mcp_servers,
                                                            project_key, order)]]
    /\ mcpFile' = McpFileAfterInit
    /\ dirs' = DirsAfterInit(dirs)
    /\ UNCHANGED <<configFile, shortcutsFile, profilesFile, claudeFile>>

\* save_claude_config: open(CLAUDE_CONFIG_FILE, "w")
reconcile_open(proc) ==
    /\ procs[proc].pc = "loaded"
    /\ procs' = [procs EXCEPT ![proc].pc = "opened"]
    /\ claudeFile' = Truncated
    /\ UNCHANGED <<dirs, configFile, shortcutsFile, profilesFile, mcpFile>>

\* save_claude_config: json.dump and the close of the file.  wrote numbers the
\* writes in the order they were made.
reconcile_write(proc) ==
    /\ procs[proc].pc = "opened"
    /\ procs' = [procs EXCEPT
                    ![proc].pc = "done",
                    ![proc].wrote = 1 + Cardinality({q \in DOMAIN procs : procs[q].pc = "done"})]
    /\ claudeFile' = Overwritten(claudeFile, procs[proc].out)
    /\ UNCHANGED <<dirs, configFile, shortcutsFile, profilesFile, mcpFile>>

-----------------------------------------------------------------------------
(* launcher.py.                                                            *)

\* Python truthiness of an optional string.
Truthy(opt) == opt # None /\ Join(opt[1]) # ""

get_claude_dir == load_config.claude_dir

\* A should_skip_permissions that does not read the stored setting.
should_skip_permissions_default == DEFAULT_CONFIG.skip_permissions

should_skip_permissions == load_config.skip_permissions

BYPASS == "--dangerously-skip-permissions"

UNKNOWN_SERVERS == "Unknown MCP servers"

build_claude_command(mcp_arg, resume, safe_mode, prompt) ==
    LET parsed == Truthy(mcp_arg)
        servers == IF parsed THEN parse_mcp_arg(mcp_arg[1]) ELSE <<>>
        checked == validate_servers(servers)
        failed == parsed /\ checked.invalid # <<>>
        cmd == <<"claude">>
               \o (IF resume THEN <<"--resume">> ELSE <<>>)
               \o (IF ~safe_mode /\ should_skip_permissions THEN <<BYPASS>> ELSE <<>>)
               \o (IF Truthy(prompt) THEN <<"--print", "-p", Join(prompt[1])>> ELSE <<>>)
    IN  [cmd |-> IF failed THEN <<>> ELSE cmd,
         enabled_servers |-> IF failed \/ ~parsed THEN <<>> ELSE checked.valid,
         error |-> IF failed THEN Some(UNKNOWN_SERVERS) ELSE None,
         safe_mode |-> safe_mode,
         parsed |-> parsed,
         servers |-> servers,
         valid |-> IF parsed THEN checked.valid ELSE <<>>,
         invalid |-> IF parsed THEN checked.invalid ELSE <<>>,
         log |-> IF parsed THEN <<"resolve", "validate">> ELSE <<>>]

\* How the attempt to run the assistant as a child ends: it exits with 0 or 1,
\* or the executable is not on the search path.
ChildOutcomes == {"exit0", "exit1", "missing"}

\* os.execvp replaces the process, so launch_claude returns from it only when
\* the executable is missing.
ExecOutcomes == {"exit0", "missing"}

\* The same, with the user's Ctrl-C arriving while subprocess.run waits.
WaitOutcomes == ChildOutcomes \cup {"interrupt"}

\* launch_claude's return value: the child's status, 1 for FileNotFoundError,
\* 130 for KeyboardInterrupt.
ReturnCode(child) ==
    CASE child = "exit0" -> 0
      [] child = "interrupt" -> 130
      [] OTHER -> 1

\* launch_claude_oneshot catches FileNotFoundError only: a KeyboardInterrupt
\* raised by subprocess.run leaves it; launch_claude's one-shot branch catches both.
Raised(mode, child) ==
    IF mode = "run_capture" /\ child = "interrupt" THEN Some("KeyboardInterrupt") ELSE None

\* The part common to both launchers once the command is built: the abort on
\* an error, else the reconcile, then the spawn.  dirs1 is the directory set
\* after the working directory was selected; steps is what follows the
\* reconcile in the log.
LaunchFrom(op, given, mcp_arg, claude_dir, dirs1, made, built, steps, mode, child) ==
    LET head == (IF made THEN <<"create_dir">> ELSE <<>>) \o built.log
        base == [NoLast EXCEPT !.op = op, !.path = claude_dir, !.given = given,
                               !.mcp_arg = mcp_arg, !.servers = built.servers,
                               !.valid = built.valid, !.invalid = built.invalid,
                               !.safe_mode = built.safe_mode, !.cmd = built.cmd,
                               !.prev_set = JustSet]
    IN  IF built.error # None
        THEN /\ dirs' = (IF built.parsed THEN DirsAfterInit(dirs1) ELSE dirs1)
             /\ mcpFile' = (IF built.parsed THEN McpFileAfterInit ELSE mcpFile)
             /\ UNCHANGED <<configFile, shortcutsFile, profilesFile, claudeFile>>
             /\ last' = [base EXCEPT !.error = built.error, !.log = head, !.rc = 1]
        ELSE \E order \in DisabledOrders(claude_dir, built.enabled_servers) :
             /\ dirs' = DirsAfterInit(dirs1)
             /\ mcpFile' = McpFileAfterInit
             /\ claudeFile' =
                    Saved(set_project_mcp_servers(load_claude_config, load_mcp_servers,
                                                  claude_dir, order))
             /\ UNCHANGED <<configFile, shortcutsFile, profilesFile>>
             /\ last' = [base EXCEPT
                            !.reconciled = TRUE,
                            !.log = head \o <<"reconcile">> \o steps,
                            !.spawn = IF child = "missing" THEN None
                                      ELSE Some([mode |-> mode, cmd |-> built.cmd,
                                                 cwd |-> claude_dir]),
                            !.child = child,
                            !.raised = Raised(mode, child),
                            !.rc = IF Raised(mode, child) = None
                                   THEN ReturnCode(child) ELSE 0]

launch_claude(op, given, mcp_arg, resume, local_mode, safe_mode, prompt, cwd, child) ==
    LET claude_dir == IF local_mode THEN cwd ELSE get_claude_dir
        made == ~local_mode /\ claude_dir \notin dirs
        dirs1 == IF local_mode THEN dirs ELSE dirs \cup {claude_dir}
        built == build_claude_command(mcp_arg, resume, safe_mode, prompt)
        steps == (IF local_mode THEN <<>> ELSE <<"chdir">>) \o <<"spawn">>
        mode == IF Truthy(prompt) THEN "run" ELSE "exec"
    IN  LaunchFrom(op, given, mcp_arg, claude_dir, dirs1, made, built, steps, mode, child)

launch_claude_oneshot(prompt, mcps, safe_mode, child) ==
    LET claude_dir == get_claude_dir
        made == claude_dir \notin dirs
        dirs1 == dirs \cup {claude_dir}
        mcp_arg == IF mcps # None /\ mcps[1] # <<>> THEN Some(JoinComma(mcps[1])) ELSE None
        built == build_claude_command(mcp_arg, FALSE, safe_mode, Some(prompt))
    IN  LaunchFrom("launch_claude_oneshot", mcp_arg, mcp_arg, claude_dir, dirs1, made, built,
                   <<"spawn">>, "run_capture", child)

-----------------------------------------------------------------------------
(* config.py and cli.py: the commands.                                     *)

\* set_default_profile: load_config, set the key, save_config.
set_default_profile(profile) ==
    /\ configFile' = [exists |-> TRUE,
                      data |-> [load_config EXCEPT !.default_profile = profile]]
    /\ dirs' = dirs \cup {HOME_SAL}

cmd_mcp_set(profile) ==
    LET name == Join(profile)
        base == [NoLast EXCEPT !.op = "cmd_mcp_set", !.given = Some(profile)]
    IN  IF name \notin DOMAIN DEFAULT_PROFILES /\ name # "none"
        THEN /\ last' = [base EXCEPT !.rc = 1]
             /\ UNCHANGED <<dirs, files>>
        ELSE /\ set_default_profile(IF name = "none" THEN None ELSE Some(profile))
             /\ last' = base
             /\ UNCHANGED <<shortcutsFile, profilesFile, mcpFile, claudeFile>>

\* A get_default_profile that reads the built-in defaults, not config.json.
get_default_profile_builtin == DEFAULT_CONFIG.default_profile

get_default_profile == load_config.default_profile

cmd_launch(mcp_arg, resume, local_mode, safe_mode, cwd, child) ==
    LET default_profile == get_default_profile
        arg == IF mcp_arg = None /\ Truthy(default_profile) THEN default_profile ELSE mcp_arg
    IN  launch_claude("cmd_launch", mcp_arg, arg, resume, local_mode, safe_mode, None,
                      cwd, child)

\* cmd_prompt runs in the default directory: launch_claude's local_mode is off.
cmd_prompt(text, safe_mode, child) ==
    launch_claude("cmd_prompt", None, None, FALSE, FALSE, safe_mode, Some(text),
                  DEFAULT_CLAUDE_DIR, child)

\* cmd_config's reading of the value typed: "true", "false" and "none" become
\* True, False and None, anything else is kept as the string.
ConfigValue(value) ==
    CASE value = "true" -> TRUE
      [] value = "false" -> FALSE
      [] value = "none" -> None
      [] OTHER -> Some(value)

\* "sal config KEY VALUE": config[key] = value, then save_config.
cmd_config(key, value) ==
    /\ configFile' = [exists |-> TRUE,
                      data |-> Update(load_config, key :> ConfigValue(value))]
    /\ dirs' = dirs \cup {HOME_SAL}
    /\ last' = [NoLast EXCEPT !.op = "cmd_config"]
    /\ UNCHANGED <<shortcutsFile, profilesFile, mcpFile, claudeFile>>

get_report_email ==
    IF "report_email" \in DOMAIN load_config THEN load_config.report_email ELSE None

\* The flags cmd_start_of_day keeps when it cleans up: cutoff is KEEP_DAYS
\* before the day of the cleanup, and older flags are unlinked.
KEEP_DAYS == 7

\* A cleanup with the comparison the wrong way round.
FlagsKept_inverted(fs, now) == {d \in fs : d < now - KEEP_DAYS}

FlagsKept(fs, now) == {d \in fs : ~(d < now - KEEP_DAYS)}

REPORT_MCPS == <<<<"gm">>, <<"cal">>>>

EMAIL_MCPS == <<<<"gm">>>>

\* A cmd_start_of_day that does not look at force.
cmd_start_of_day_unforced(force, status, child) ==
    LET run == [NoRun EXCEPT !.day = today, !.force = force, !.status = status]
        ended(r) == [pc |-> "idle", cur |-> r, prev |-> routine.cur]
    IN  IF get_report_email = None
        THEN /\ routine' = ended([run EXCEPT !.outcome = "no_email", !.rc = 1])
             /\ UNCHANGED <<dirs, files, last, flags>>
        ELSE IF status \/ today \in flags
        THEN /\ routine' = ended([run EXCEPT
                                     !.outcome = IF status THEN "status" ELSE "already_ran"])
             /\ dirs' = dirs \cup {HOME_SAL}
             /\ UNCHANGED <<files, last, flags>>
        ELSE /\ launch_claude_oneshot(<<"report">>, Some(REPORT_MCPS), FALSE, child)
             /\ LET called == [run EXCEPT !.calls = <<"report">>]
                IN  routine' =
                        IF last'.raised # None
                        THEN ended([called EXCEPT !.outcome = "raised"])
                        ELSE IF last'.rc # 0
                        THEN ended([called EXCEPT !.outcome = "failed", !.rc = 1])
                        ELSE [pc |-> "email", cur |-> called, prev |-> routine.cur]
             /\ UNCHANGED flags

\* A cmd_start_of_day that fails when the email one-shot fails.
cmd_start_of_day_email_strict(child) ==
    /\ launch_claude_oneshot(<<"email">>, Some(EMAIL_MCPS), FALSE, child)
    /\ LET called == [routine.cur EXCEPT !.calls = <<"report", "email">>]
       IN  IF last'.raised # None
           THEN /\ routine' = [routine EXCEPT !.pc = "idle",
                                              !.cur = [called EXCEPT !.outcome = "raised"]]
                /\ UNCHANGED flags
           ELSE IF last'.rc # 0
           THEN /\ routine' = [routine EXCEPT
                                  !.pc = "idle",
                                  !.cur = [called EXCEPT !.outcome = "failed", !.rc = 1]]
                /\ UNCHANGED flags
           ELSE /\ routine' = [routine EXCEPT
                                  !.pc = "idle",
                                  !.cur = [called EXCEPT !.outcome = "completed",
                                                         !.flagged = TRUE]]
                /\ flags' = FlagsKept(flags \cup {routine.cur.day}, today)

\* cmd_start_of_day up to the return of the report one-shot: the early returns
\* (no report_email; status; already ran), else the report.
cmd_start_of_day(force, status, child) ==
    LET run == [NoRun EXCEPT !.day = today, !.force = force, !.status = status]
        ended(r) == [pc |-> "idle", cur |-> r, prev |-> routine.cur]
    IN  IF get_report_email = None
        THEN /\ routine' = ended([run EXCEPT !.outcome = "no_email", !.rc = 1])
             /\ UNCHANGED <<dirs, files, last, flags>>
        ELSE IF status \/ (today \in flags /\ ~force)
        THEN /\ routine' = ended([run EXCEPT
                                     !.outcome = IF status THEN "status" ELSE "already_ran"])
             /\ dirs' = dirs \cup {HOME_SAL}
             /\ UNCHANGED <<files, last, flags>>
        ELSE /\ launch_claude_oneshot(<<"report">>, Some(REPORT_MCPS), FALSE, child)
             /\ LET called == [run EXCEPT !.calls = <<"report">>]
                IN  routine' =
                        IF last'.raised # None
                        THEN ended([called EXCEPT !.outcome = "raised"])
                        ELSE IF last'.rc # 0
                        THEN ended([called EXCEPT !.outcome = "failed", !.rc = 1])
                        ELSE [pc |-> "email", cur |-> called, prev |-> routine.cur]
             /\ UNCHANGED flags

\* The rest of cmd_start_of_day: the email one-shot, the warning when it
\* failed, the flag, the cleanup of old flags, return 0.
cmd_start_of_day_email(child) ==
    /\ launch_claude_oneshot(<<"email">>, Some(EMAIL_MCPS), FALSE, child)
    /\ LET called == [routine.cur EXCEPT !.calls = <<"report", "email">>]
       IN  IF last'.raised # None
           THEN /\ routine' = [routine EXCEPT !.pc = "idle",
                                              !.cur = [called EXCEPT !.outcome = "raised"]]
                /\ UNCHANGED flags
           ELSE /\ routine' = [routine EXCEPT
                                  !.pc = "idle",
                                  !.cur = [called EXCEPT !.outcome = "completed",
                                                         !.warned = (last'.rc # 0),
                                                         !.flagged = TRUE]]
                /\ flags' = FlagsKept(flags \cup {routine.cur.day}, today)

-----------------------------------------------------------------------------
(* The environment the program starts in, and the inputs it is given.      *)

\* ~/.sal/shortcuts.json: absent, or remapping "gm" to a server of the user's.
USER_SHORTCUTS == {EmptyMap, ("gm" :> "fastmail")}

\* ~/.sal/profiles.json: absent, adding a profile that names another profile,
\* or redefining a built-in profile with a server of the user's.
USER_PROFILES ==
    {EmptyMap, ("work" :> <<"google", "at">>), ("start" :> <<"gm", "notes">>)}

\* ~/.sal/mcp.json: absent, or edited to drop airtable and add "notes".
USER_MCP ==
    {[exists |-> FALSE, mcpServers |-> EmptyMap],
     [exists |-> TRUE,
      mcpServers |-> ("gmail" :> [type |-> "stdio", args |-> "gmail_mcp_server.py"]) @@
                     ("google-calendar" :> [type |-> "stdio", args |-> "my_calendar.py"]) @@
                     ("notes" :> [type |-> "sse", args |-> "notes.py"])]}

\* ~/.claude.json: absent, or written by the host with an entry for the default
\* directory that holds a plugin's servers.
HOST_CLAUDE ==
    {[exists |-> FALSE, parseable |-> FALSE, data |-> EmptyMap],
     [exists |-> TRUE, parseable |-> TRUE,
      data |-> [numStartups |-> "7",
                projects |->
                    (DEFAULT_CLAUDE_DIR :>
                        [allowedTools |-> <<"Bash">>,
                         hasTrustDialogAccepted |-> FALSE,
                         mcpServers |-> ("plugin-db" :> [type |-> "sse", args |-> "db"]),
                         disabledMcpServers |-> <<"plugin-fs", "gmail">>])]]}

\* The MCP selections given on the command line.
LaunchArgs ==
    {<<"gm">>, <<"gm", COMMA, "cal", COMMA, "gm">>, <<"bogus-name">>}

\* The profile names given to "sal mcp set".
SetArgs == {<<"start">>, <<"google">>, <<"none">>, <<"work">>}

\* The server lists the callers of launch_claude_oneshot pass.
OneshotMcps == {None, Some(<<<<"gm">>, <<"cal">>>>), Some(<<<<"gm">>>>), Some(<<<<"nope">>>>)}

Prompts == {<<"hello">>}

\* The directories the user runs the program from.
ProjectDirs == {DEFAULT_CLAUDE_DIR}

ResumeFlags == {FALSE}

SafeFlags == {FALSE}

\* The environments a run starts in: the user's files, and either a fresh home
\* (no host configuration, no default directory yet) or one the host has used.
Init ==
    /\ shortcutsFile \in USER_SHORTCUTS
    /\ profilesFile = EmptyMap
    /\ mcpFile \in USER_MCP
    /\ claudeFile \in HOST_CLAUDE
    /\ configFile = [exists |-> FALSE, data |-> DEFAULT_CONFIG]
    /\ dirs = (IF claudeFile.exists THEN {DEFAULT_CLAUDE_DIR} ELSE {})
              \cup (IF mcpFile.exists \/ shortcutsFile # EmptyMap THEN {HOME_SAL} ELSE {})
    /\ last = NoLast
    /\ flags = {} /\ today = 1 /\ routine = Idle /\ procs = NoProcs

\* "sal [-m MCP] [-r] [-l] [--safe]", run from an existing project directory.
CmdLaunch ==
    \E mcp_arg \in {None} \cup {Some(a) : a \in LaunchArgs},
       resume \in ResumeFlags, safe_mode \in SafeFlags, local_mode \in BOOLEAN,
       child \in ExecOutcomes :
        \E cwd \in (IF local_mode THEN dirs \cap ProjectDirs ELSE {DEFAULT_CLAUDE_DIR}) :
            cmd_launch(mcp_arg, resume, local_mode, safe_mode, cwd, child)
            /\ UNCHANGED others

\* "sal -p TEXT [--safe]"
CmdPrompt ==
    \E text \in Prompts, safe_mode \in SafeFlags, child \in ChildOutcomes :
        cmd_prompt(text, safe_mode, child) /\ UNCHANGED others

\* A call of launch_claude_oneshot, as the daily routine makes it.
LaunchOneshot ==
    \E prompt \in Prompts, mcps \in OneshotMcps, child \in ChildOutcomes :
        launch_claude_oneshot(prompt, mcps, FALSE, child) /\ UNCHANGED others

CmdMcpSet == \E profile \in SetArgs : cmd_mcp_set(profile) /\ UNCHANGED others

Next == CmdLaunch \/ CmdPrompt \/ LaunchOneshot \/ CmdMcpSet

Spec == Init /\ [][Next]_vars

-----------------------------------------------------------------------------
(* The resolver on its own: every raw argument and every list of names up  *)
(* to the bounds, in every combination of the user's files.                *)

Lexemes == {"gm", "cal", "gmail", "start", "work", COMMA, BLANK}

RawArgs == SeqsUpTo(Lexemes, MaxArgLen)

NameLists == SeqsUpTo({"gmail", "airtable", "notes", "bogus-name"}, MaxNames)

InitParse ==
    /\ shortcutsFile \in USER_SHORTCUTS
    /\ profilesFile \in USER_PROFILES
    /\ mcpFile \in USER_MCP
    /\ claudeFile = [exists |-> FALSE, parseable |-> FALSE, data |-> EmptyMap]
    /\ configFile = [exists |-> FALSE, data |-> DEFAULT_CONFIG]
    /\ dirs = IF mcpFile.exists \/ shortcutsFile # EmptyMap \/ profilesFile # EmptyMap
              THEN {HOME_SAL} ELSE {}
    /\ flags = {} /\ today = 1 /\ routine = Idle /\ procs = NoProcs
    /\ \/ \E raw \in RawArgs : last = [NoLast EXCEPT !.op = "arg", !.mcp_arg = Some(raw)]
       \/ \E names \in NameLists : last = [NoLast EXCEPT !.op = "names", !.servers = names]

\* servers = parse_mcp_arg(mcp_arg)
ParseMcpArg ==
    /\ last.op = "arg"
    /\ last' = [last EXCEPT !.op = "parse_mcp_arg",
                            !.servers = parse_mcp_arg(last.mcp_arg[1])]
    /\ UNCHANGED <<dirs, files, others>>

\* valid, invalid = validate_servers(servers)
ValidateServers ==
    /\ last.op \in {"names", "parse_mcp_arg"}
    /\ LET checked == validate_servers(last.servers)
       IN  last' = [last EXCEPT !.op = "validate_servers",
                                !.valid = checked.valid, !.invalid = checked.invalid]
    /\ mcpFile' = McpFileAfterInit
    /\ dirs' = DirsAfterInit(dirs)
    /\ UNCHANGED <<configFile, shortcutsFile, profilesFile, claudeFile, others>>

NextParse == ParseMcpArg \/ ValidateServers

SpecParse == InitParse /\ [][NextParse]_vars

-----------------------------------------------------------------------------
(* Properties of the resolver, checked under SpecParse.                    *)

NoRepeats(s) == \A i, j \in DOMAIN s : i # j => s[i] # s[j]

FirstIndex(s, x) == CHOOSE i \in DOMAIN s : s[i] = x /\ \A k \in 1..(i - 1) : s[k] # x

\* sub lists exactly the elements of s at the positions idx, in their order.
ListsPositions(sub, s, idx) ==
    /\ Len(sub) = Cardinality(idx)
    /\ \A i \in idx : sub[Cardinality({j \in idx : j <= i})] = s[i]

GM_CAL_GM == <<"gm", COMMA, "cal", COMMA, "gm">>

\* C7: parse_mcp_arg returns a sequence without a repeated element, holding
\* exactly the names of the expanded token sequence, in the order of their
\* first occurrence there; with the built-in shortcuts "gm,cal,gm" gives
\* [gmail, google-calendar].
C7_ParseUniqueFirstSeen ==
    last.op = "parse_mcp_arg" =>
        LET expanded == ExpandArg(last.mcp_arg[1])
            out == last.servers
        IN  /\ NoRepeats(out)
            /\ Range(out) = Range(expanded)
            /\ \A i, j \in DOMAIN out :
                   i < j => FirstIndex(expanded, out[i]) < FirstIndex(expanded, out[j])
            /\ (last.mcp_arg = Some(GM_CAL_GM) /\ shortcutsFile = EmptyMap)
                   => out = <<"gmail", "google-calendar">>

\* A repeated name was dropped: "gm,start" with the built-in registries.
C7_Witness ==
    /\ last.op = "parse_mcp_arg"
    /\ last.mcp_arg = Some(<<"gm", COMMA, "start">>)
    /\ ExpandArg(last.mcp_arg[1]) = <<"gmail", "airtable", "gmail", "google-calendar">>
    /\ last.servers = <<"gmail", "airtable", "google-calendar">>

\* The members of profile P, each resolved as an argument of its own, joined
\* and de-duplicated.
MembersResolved(P) ==
    LET members == load_profiles[P]
    IN  Unique(Flatten([i \in DOMAIN members |-> parse_mcp_arg(<<members[i]>>)]))

\* C8 as stated: for every profile P of the merged map, parse_mcp_arg(P) is the
\* de-duplicated concatenation of parse_mcp_arg(s) over P's members s, also
\* when a member is itself the name of a profile.
C8_ProfileIsConcatenation ==
    \A P \in DOMAIN load_profiles :
        (last.op = "parse_mcp_arg" /\ last.mcp_arg = Some(<<P>>))
            => last.servers = MembersResolved(P)

\* C8 amended: the same for the profiles none of whose members is the name of a
\* profile; a member that names a profile is only looked up as a shortcut.
C8_PlainProfileIsConcatenation ==
    \A P \in DOMAIN load_profiles :
        (/\ last.op = "parse_mcp_arg"
         /\ last.mcp_arg = Some(<<P>>)
         /\ Range(load_profiles[P]) \cap DOMAIN load_profiles = {})
            => last.servers = MembersResolved(P)

\* A built-in profile the user has redefined was resolved.
C8_Witness ==
    /\ last.op = "parse_mcp_arg"
    /\ last.mcp_arg = Some(<<"start">>)
    /\ profilesFile = ("start" :> <<"gm", "notes">>)
    /\ last.servers = <<"gmail", "notes">>

\* C9: validate_servers returns as valid exactly the names that are keys of the
\* server definitions and as invalid exactly those that are not, each in input
\* order; ["bogus-name"] gives valid = [] and invalid = ["bogus-name"].
C9_ValidatePartitions ==
    last.op = "validate_servers" =>
        LET names == last.servers
            keys == DOMAIN mcpFile.mcpServers
        IN  /\ ListsPositions(last.valid, names, {i \in DOMAIN names : names[i] \in keys})
            /\ ListsPositions(last.invalid, names, {i \in DOMAIN names : names[i] \notin keys})
            /\ names = <<"bogus-name">>
                   => last.valid = <<>> /\ last.invalid = <<"bogus-name">>

\* A list holding a known name, an unknown one and a repeat was split.
C9_Witness ==
    /\ last.op = "validate_servers"
    /\ last.servers = <<"notes", "gmail", "notes">>
    /\ last.valid = <<"gmail">>
    /\ last.invalid = <<"notes", "notes">>

-----------------------------------------------------------------------------
(* Properties of the reconciler and the launchers, checked under Spec.     *)

LaunchOps == {"cmd_launch", "cmd_prompt", "launch_claude_oneshot"}

\* The entry of the project the last invocation worked on.
LastProject == ProjectOf(claudeFile.data, last.path)

\* C1: once a launch has reconciled a project with the validated set S, the
\* servers of its entry that are not in disabledMcpServers are exactly S.
C1_AutoStartIsRequested ==
    last.reconciled =>
        /\ Range(last.valid) \subseteq DOMAIN mcpFile.mcpServers
        /\ DOMAIN LastProject.mcpServers \ Range(LastProject.disabledMcpServers)
               = Range(last.valid)

\* "gm,cal,gm" was reconciled into the entry the host had written, in which
\* gmail was not to auto-start.
C1_Witness ==
    /\ last.reconciled
    /\ last.mcp_arg = Some(GM_CAL_GM)
    /\ last.valid = <<"gmail", "google-calendar">>
    /\ "plugin-fs" \in Range(LastProject.disabledMcpServers)
    /\ AutoStart(claudeFile.data, DEFAULT_CLAUDE_DIR) = {"gmail", "google-calendar"}

\* C2: a reconcile keeps in disabledMcpServers every name that was there and
\* is not a key of the server definitions.
C2_ForeignDisabledKept ==
    [][last'.reconciled =>
          \A name \in Range(DisabledOf(ProjectOf(load_claude_config, last'.path))) :
              name \notin DOMAIN load_mcp_servers
                  => name \in Range(DisabledOf(ProjectOf(claudeFile'.data, last'.path)))]_vars

\* A plugin's entry is still there after a reconcile that enabled every server.
C2_Witness ==
    /\ last.reconciled
    /\ Range(last.valid) = DOMAIN mcpFile.mcpServers
    /\ LastProject.disabledMcpServers = <<"plugin-fs">>

\* C3: a launch that finds an invalid name returns a failure and has changed
\* no directory and no file, has not reconciled and has started nothing.
C3_AbortChangesNothing ==
    [][(last'.op \in LaunchOps /\ last'.invalid # <<>>) =>
          /\ last'.rc = 1
          /\ last'.error # None
          /\ ~last'.reconciled
          /\ last'.spawn = None
          /\ UNCHANGED <<dirs, files>>]_vars

StepRank(step) ==
    CASE step = "resolve" -> 1
      [] step = "validate" -> 2
      [] step = "reconcile" -> 3
      [] step \in {"create_dir", "chdir"} -> 4
      [] step = "spawn" -> 5

\* C4: the steps of a launch come in the order resolve, validate, reconcile,
\* working directory (created when needed), spawn.
C4_StepsInOrder ==
    last.op \in LaunchOps =>
        \A i, j \in DOMAIN last.log :
            i < j => StepRank(last.log[i]) <= StepRank(last.log[j])

\* C5: a second reconcile of the same project with the same set and the same
\* server definitions leaves ~/.claude.json as the first one wrote it.
C5_SecondCallChangesNothing ==
    [][(/\ last.reconciled /\ last'.reconciled
        /\ last'.path = last.path
        /\ last'.valid = last.valid
        /\ mcpFile' = mcpFile) => claudeFile' = claudeFile]_vars

\* C6: after a reconcile every key of the server definitions is a key of the
\* project's mcpServers, with its definition.
C6_AllServersAvailable ==
    last.reconciled =>
        \A name \in DOMAIN mcpFile.mcpServers :
            /\ name \in DOMAIN LastProject.mcpServers
            /\ LastProject.mcpServers[name] = mcpFile.mcpServers[name]

\* A launch with no server enabled, on the user's own definitions.
C6_Witness ==
    /\ last.reconciled
    /\ last.valid = <<>>
    /\ DOMAIN LastProject.mcpServers = {"gmail", "google-calendar", "notes"}
    /\ Range(LastProject.disabledMcpServers) = {"gmail", "google-calendar", "notes", "plugin-fs"}

\* The launch that follows a successful "sal mcp set P", given no MCP argument.
DefaultLaunchAfterSet ==
    last.op = "cmd_launch" /\ last.given = None /\ last.prev_set # None

\* C10 as stated: that launch reconciles the project so that its auto-start
\* set is what P resolves to.
C10_DefaultProfileLaunched ==
    DefaultLaunchAfterSet =>
        /\ last.reconciled
        /\ AutoStart(claudeFile.data, last.path) = Range(parse_mcp_arg(last.prev_set[1]))

\* C10 amended: it does so when every server P resolves to is a key of the
\* server definitions; otherwise it aborts with the unknown-servers error and
\* does not reconcile.
C10_DefaultProfileLaunchedIfDefined ==
    DefaultLaunchAfterSet =>
        LET wanted == Range(parse_mcp_arg(last.prev_set[1]))
        IN  IF wanted \subseteq DOMAIN mcpFile.mcpServers
            THEN /\ last.reconciled
                 /\ AutoStart(claudeFile.data, last.path) = wanted
            ELSE /\ ~last.reconciled
                 /\ last.error = Some(UNKNOWN_SERVERS)
                 /\ last.rc = 1

\* "sal mcp set start", then "sal": the three servers of "start" auto-start.
C10_Witness ==
    /\ DefaultLaunchAfterSet
    /\ last.prev_set = Some(<<"start">>)
    /\ last.reconciled
    /\ AutoStart(claudeFile.data, last.path) = {"airtable", "gmail", "google-calendar"}

-----------------------------------------------------------------------------
(* The launch commands with every flag, on a host configuration that holds *)
(* other projects or cannot be parsed.                                     *)

OTHER_PROJECT == "~/other"

\* What the host wrote: a counter of its own, a project this tool never
\* touches, and the default directory's entry with the host's own fields set.
HOST_DATA ==
    [numStartups |-> "7",
     projects |->
        (OTHER_PROJECT :>
            [allowedTools |-> <<"Edit">>,
             hasTrustDialogAccepted |-> TRUE,
             mcpServers |-> ("plugin-db" :> [type |-> "sse", args |-> "db"]),
             disabledMcpServers |-> <<"plugin-fs">>]) @@
        (DEFAULT_CLAUDE_DIR :>
            [allowedTools |-> <<"Bash">>,
             hasTrustDialogAccepted |-> FALSE,
             mcpServers |-> EmptyMap,
             disabledMcpServers |-> <<"gmail">>])]

\* The same before the host has seen the default directory.
HOST_DATA_OTHER ==
    [HOST_DATA EXCEPT !.projects = (OTHER_PROJECT :> HOST_DATA.projects[OTHER_PROJECT])]

\* ~/.claude.json: absent, as the host wrote it, or the same damaged so that
\* json.load rejects it.
HOST_FILES ==
    {[exists |-> FALSE, parseable |-> FALSE, data |-> EmptyMap],
     [exists |-> TRUE, parseable |-> TRUE, data |-> HOST_DATA],
     [exists |-> TRUE, parseable |-> TRUE, data |-> HOST_DATA_OTHER],
     [exists |-> TRUE, parseable |-> FALSE, data |-> HOST_DATA]}

CliArgs == {<<"none">>, <<"gm">>}

CliSetArgs == {<<"start">>, <<"none">>}

SkipValues == {"true", "false"}

InitCli ==
    /\ shortcutsFile = EmptyMap
    /\ profilesFile = EmptyMap
    /\ mcpFile = [exists |-> FALSE, mcpServers |-> EmptyMap]
    /\ claudeFile \in HOST_FILES
    /\ configFile = [exists |-> FALSE, data |-> DEFAULT_CONFIG]
    /\ dirs = IF claudeFile.exists
              THEN DOMAIN claudeFile.data.projects ELSE {}
    /\ last = NoLast
    /\ flags = {} /\ today = 1 /\ routine = Idle /\ procs = NoProcs

\* "sal [-m MCP] [--safe]"
CliLaunch ==
    \E mcp_arg \in {None} \cup {Some(a) : a \in CliArgs},
       safe_mode \in BOOLEAN, child \in ExecOutcomes :
        /\ cmd_launch(mcp_arg, FALSE, FALSE, safe_mode, DEFAULT_CLAUDE_DIR, child)
        /\ UNCHANGED others

\* "sal -p TEXT [--safe]", which the user may interrupt.
CliPrompt ==
    \E text \in Prompts, safe_mode \in BOOLEAN, child \in WaitOutcomes :
        cmd_prompt(text, safe_mode, child) /\ UNCHANGED others

\* launch_claude_oneshot(prompt, ["gm"]), which the user may interrupt.
CliOneshot ==
    \E prompt \in Prompts, safe_mode \in BOOLEAN, child \in WaitOutcomes :
        /\ launch_claude_oneshot(prompt, Some(<<<<"gm">>>>), safe_mode, child)
        /\ UNCHANGED others

\* "sal mcp set PROFILE"
CliMcpSet == \E profile \in CliSetArgs : cmd_mcp_set(profile) /\ UNCHANGED others

\* "sal config skip_permissions VALUE"
CliConfig ==
    \E value \in SkipValues : cmd_config("skip_permissions", value) /\ UNCHANGED others

NextCli == CliLaunch \/ CliPrompt \/ CliOneshot \/ CliMcpSet \/ CliConfig

SpecCli == InitCli /\ [][NextCli]_vars

-----------------------------------------------------------------------------
(* The daily routine, over several days.                                   *)

MaxDay == 3         \* the days the clock runs through

EmailValues == {"me@example.com", "none"}

InitDay ==
    /\ shortcutsFile = EmptyMap
    /\ profilesFile = EmptyMap
    /\ mcpFile = [exists |-> FALSE, mcpServers |-> EmptyMap]
    /\ claudeFile = [exists |-> FALSE, parseable |-> FALSE, data |-> EmptyMap]
    /\ configFile = [exists |-> FALSE, data |-> DEFAULT_CONFIG]
    /\ dirs = {}
    /\ last = NoLast
    /\ flags = {} /\ today = 1 /\ routine = Idle /\ procs = NoProcs

\* "sal config report_email VALUE"
DayConfig ==
    /\ routine.pc = "idle"
    /\ \E value \in EmailValues : cmd_config("report_email", value)
    /\ UNCHANGED others

\* "sal start-of-day [--force] [--status]"
StartOfDay ==
    /\ routine.pc = "idle"
    /\ \E force \in BOOLEAN, status \in BOOLEAN, child \in WaitOutcomes :
           cmd_start_of_day(force, status, child)
    /\ UNCHANGED <<today, procs>>

\* The routine goes on after the report one-shot returned 0.
StartOfDayEmail ==
    /\ routine.pc = "email"
    /\ \E child \in WaitOutcomes : cmd_start_of_day_email(child)
    /\ UNCHANGED <<today, procs>>

\* Midnight passes.
NewDay ==
    /\ today < MaxDay
    /\ today' = today + 1
    /\ UNCHANGED <<dirs, files, last, flags, routine, procs>>

NextDay == DayConfig \/ StartOfDay \/ StartOfDayEmail \/ NewDay

SpecDay == InitDay /\ [][NextDay]_vars

-----------------------------------------------------------------------------
(* Two invocations that reconcile at the same time.                        *)

Procs == {1, 2}

RaceProjects == {DEFAULT_CLAUDE_DIR, OTHER_PROJECT}

RaceSets == {<<>>, <<"gmail">>, <<"gmail", "google-calendar">>}

InitRace ==
    /\ shortcutsFile = EmptyMap
    /\ profilesFile = EmptyMap
    /\ mcpFile = [exists |-> TRUE, mcpServers |-> DEFAULT_MCP_SERVERS]
    /\ claudeFile \in {[exists |-> FALSE, parseable |-> FALSE, data |-> EmptyMap],
                       [exists |-> TRUE, parseable |-> TRUE, data |-> HOST_DATA]}
    /\ configFile = [exists |-> FALSE, data |-> DEFAULT_CONFIG]
    /\ dirs = {HOME_SAL} \cup RaceProjects
    /\ last = NoLast
    /\ flags = {} /\ today = 1 /\ routine = Idle
    /\ procs = [proc \in Procs |-> NotCalled]

RaceLoad ==
    \E proc \in Procs, project_key \in RaceProjects, enabled_servers \in RaceSets :
        /\ reconcile_load(proc, project_key, enabled_servers)
        /\ UNCHANGED <<last, flags, today, routine>>

RaceOpen ==
    \E proc \in Procs : reconcile_open(proc) /\ UNCHANGED <<last, flags, today, routine>>

RaceWrite ==
    \E proc \in Procs : reconcile_write(proc) /\ UNCHANGED <<last, flags, today, routine>>

NextRace == RaceLoad \/ RaceOpen \/ RaceWrite

SpecRace == InitRace /\ [][NextRace]_vars

-----------------------------------------------------------------------------
(* Properties of the commands, checked under SpecCli.                      *)

NONE_TOKEN == <<"none">>

\* C11: when "none" is the MCP selection ("sal mcp set none" or "sal -m none"),
\* the default profile is cleared, "none" does not reach the resolver, and a
\* launch goes on to reconcile the project with the empty set.
C11_NoneHandledByCli ==
    last.given = Some(NONE_TOKEN) =>
        /\ load_config.default_profile = None
        /\ last.mcp_arg # Some(NONE_TOKEN)
        /\ "none" \notin Range(last.servers)
        /\ last.op = "cmd_launch" =>
               last.error = None /\ last.reconciled /\ last.valid = <<>>

\* C14 as stated: the command holds the permission-bypass flag exactly when
\* safe_mode is false, whatever the stored settings are.
C14_BypassUnlessSafe ==
    (last.op \in LaunchOps /\ last.error = None) =>
        (BYPASS \in Range(last.cmd) <=> ~last.safe_mode)

\* C14 amended: it holds the flag exactly when safe_mode is false and the
\* stored skip_permissions setting is true (its default).
C14_BypassUnlessSafeOrDisabled ==
    (last.op \in LaunchOps /\ last.error = None) =>
        (BYPASS \in Range(last.cmd) <=> (~last.safe_mode /\ load_config.skip_permissions))

\* A launch without --safe after "sal config skip_permissions false".
C14_Witness ==
    /\ last.op = "cmd_launch" /\ last.error = None
    /\ ~last.safe_mode
    /\ ~load_config.skip_permissions
    /\ last.cmd = <<"claude">>

\* C15: on both one-shot paths an interrupt that arrives while the child is
\* waited for becomes the return value 130; no exception leaves the function.
C15_InterruptReturns130 ==
    (last.op \in {"cmd_prompt", "launch_claude_oneshot"} /\ last.child = "interrupt") =>
        last.raised = None /\ last.rc = 130

\* C16: a reconcile that finds ~/.claude.json present but unparseable leaves
\* the file as it is; one that finds it absent starts from the empty structure
\* and writes a file that holds the project's entry only.
C16_CorruptFileKept ==
    [][last'.reconciled =>
          /\ (claudeFile.exists /\ ~claudeFile.parseable) => claudeFile' = claudeFile
          /\ ~claudeFile.exists =>
                 /\ claudeFile'.exists /\ claudeFile'.parseable
                 /\ DOMAIN claudeFile'.data = {"projects"}
                 /\ DOMAIN claudeFile'.data.projects = {last'.path}]_vars

RECONCILED_FIELDS == {"mcpServers", "disabledMcpServers"}

\* C17: a reconcile of project P on a parseable host configuration leaves every
\* top-level key but "projects", every other project's entry and every other
\* field of P's entry as they were; an entry it creates for P has empty
\* allow-lists and hasTrustDialogAccepted = TRUE.
C17_OnlyProjectServersChange ==
    [][(last'.reconciled /\ claudeFile.exists /\ claudeFile.parseable) =>
          LET old == claudeFile.data
              new == claudeFile'.data
              P == last'.path
          IN  /\ DOMAIN new = DOMAIN old \cup {"projects"}
              /\ \A key \in DOMAIN old \ {"projects"} : new[key] = old[key]
              /\ DOMAIN new.projects = DOMAIN ProjectsOf(old) \cup {P}
              /\ \A other \in DOMAIN ProjectsOf(old) \ {P} :
                     new.projects[other] = old.projects[other]
              /\ IF P \in DOMAIN ProjectsOf(old)
                 THEN /\ DOMAIN new.projects[P] = DOMAIN old.projects[P] \cup RECONCILED_FIELDS
                      /\ \A field \in DOMAIN old.projects[P] \ RECONCILED_FIELDS :
                             new.projects[P][field] = old.projects[P][field]
                 ELSE /\ DOMAIN new.projects[P] = DOMAIN FRESH_PROJECT \cup RECONCILED_FIELDS
                      /\ new.projects[P].allowedTools = <<>>
                      /\ new.projects[P].enabledMcpjsonServers = <<>>
                      /\ new.projects[P].disabledMcpjsonServers = <<>>
                      /\ new.projects[P].hasTrustDialogAccepted = TRUE]_vars

\* The host's entry for the default directory was reconciled with gmail: the
\* host's own fields, its counter and the other project are as the host wrote
\* them.
C17_Witness ==
    /\ last.reconciled /\ last.valid = <<"gmail">>
    /\ "numStartups" \in DOMAIN claudeFile.data
    /\ claudeFile.data.numStartups = "7"
    /\ DOMAIN claudeFile.data.projects = {OTHER_PROJECT, DEFAULT_CLAUDE_DIR}
    /\ claudeFile.data.projects[OTHER_PROJECT] = HOST_DATA.projects[OTHER_PROJECT]
    /\ claudeFile.data.projects[DEFAULT_CLAUDE_DIR].allowedTools = <<"Bash">>
    /\ ~claudeFile.data.projects[DEFAULT_CLAUDE_DIR].hasTrustDialogAccepted
    /\ "gmail" \notin Range(claudeFile.data.projects[DEFAULT_CLAUDE_DIR].disabledMcpServers)

-----------------------------------------------------------------------------
(* Properties of the daily routine, checked under SpecDay.                 *)

\* The last two invocations both ended, and the later one started on the day
\* the earlier one started.
SameDayPair ==
    /\ routine.pc = "idle"
    /\ routine.prev.outcome # "none"
    /\ routine.cur.day = routine.prev.day

\* Neither of the two was given force or status.
PlainPair ==
    /\ SameDayPair
    /\ ~routine.prev.force /\ ~routine.prev.status
    /\ ~routine.cur.force /\ ~routine.cur.status

\* The invocation found the day's work done: no one-shot, return 0.
DidNothing(run) == run.calls = <<>> /\ run.outcome = "already_ran" /\ run.rc = 0

\* C12 as stated: of two plain invocations on one day, the second reports
\* that the routine already ran and returns 0 without a one-shot.
C12_SecondRunDoesNothing == PlainPair => DidNothing(routine.cur)

\* C12 amended: with report_email configured at the second invocation, it
\* does so when the first left the day's flag behind (it completed, or itself
\* found the flag); when the first ended without the flag because a one-shot
\* failed or was interrupted, the second runs the report again.  Without
\* report_email the second returns 1 and makes no one-shot call.
C12_SecondRunDoesNothingAfterCompletion ==
    PlainPair =>
        IF routine.cur.outcome = "no_email"
        THEN routine.cur.calls = <<>> /\ routine.cur.rc = 1
        ELSE /\ routine.prev.outcome \in {"completed", "already_ran"}
                    => DidNothing(routine.cur)
             /\ routine.prev.outcome \in {"failed", "raised"}
                    => routine.cur.calls # <<>>

C12_Witness ==
    /\ PlainPair
    /\ routine.prev.calls = <<"report", "email">>
    /\ routine.prev.outcome = "completed"
    /\ DidNothing(routine.cur)

\* The email one-shot of the invocation that ended last returned non-zero.
EmailFailed ==
    /\ routine.pc = "idle"
    /\ routine.cur.calls = <<"report", "email">>
    /\ last.op = "launch_claude_oneshot" /\ last.mcp_arg = Some(<<"gm">>)
    /\ last.raised = None /\ last.rc # 0

\* C13: when the report one-shot returned 0 and the email one-shot did not,
\* the routine warns, writes the day's flag and returns 0, and a later
\* invocation without force on that day makes no one-shot call.
C13_EmailFailureStillCompletes ==
    /\ EmailFailed =>
          /\ routine.cur.outcome = "completed"
          /\ routine.cur.warned /\ routine.cur.flagged /\ routine.cur.rc = 0
          /\ routine.cur.day \in flags
    /\ (SameDayPair /\ routine.prev.outcome = "completed" /\ routine.prev.warned
            /\ ~routine.cur.force)
          => routine.cur.calls = <<>>

C13_Witness ==
    /\ SameDayPair
    /\ routine.prev.outcome = "completed" /\ routine.prev.warned
    /\ routine.prev.day \in flags
    /\ ~routine.cur.force /\ ~routine.cur.status
    /\ DidNothing(routine.cur)

\* C19: a flag appears only at the end of a run whose report one-shot
\* returned 0; a run whose report one-shot returned non-zero returns 1 with no
\* email call and no flag written; and a forced run calls the report one-shot
\* whether or not the day's flag exists.
C19_FlagOnlyAfterReport ==
    [][/\ ~(flags' \subseteq flags) =>
             /\ routine.pc = "email"
             /\ last.mcp_arg = Some(<<"gm", COMMA, "cal">>)
             /\ last.raised = None /\ last.rc = 0
             /\ flags' \ flags = {routine.cur.day}
       /\ (routine' # routine /\ routine.pc = "idle" /\ last'.raised = None
               /\ last'.rc # 0 /\ routine'.cur.calls = <<"report">>) =>
             /\ routine'.pc = "idle"
             /\ routine'.cur.rc = 1
             /\ flags' = flags
       /\ (routine' # routine /\ routine.pc = "idle" /\ routine'.cur.force
               /\ ~routine'.cur.status /\ routine'.cur.outcome # "no_email") =>
             routine'.cur.calls # <<>>]_vars

\* A forced run on a day whose flag exists called the report one-shot, which
\* failed: it returned 1 and the flag is the one written earlier.
C19_Witness ==
    /\ routine.pc = "idle"
    /\ routine.cur.force /\ routine.cur.outcome = "failed" /\ routine.cur.rc = 1
    /\ routine.cur.calls = <<"report">>
    /\ routine.prev.outcome = "completed"
    /\ routine.cur.day \in flags

-----------------------------------------------------------------------------
(* Properties of concurrent reconciles, checked under SpecRace.            *)

BothDone == \A proc \in Procs : procs[proc].pc = "done"

\* The invocation whose write was made last.
LastWriter == CHOOSE proc \in Procs : procs[proc].wrote = Cardinality(Procs)

\* C18: when two invocations have reconciled the same project, the file holds
\* an entry for it whose auto-start set is that of the invocation that wrote
\* last.
C18_LastWriterWins ==
    (BothDone /\ procs[1].project = procs[2].project) =>
        /\ claudeFile.parseable
        /\ AutoStart(claudeFile.data, procs[1].project)
               = Range(procs[LastWriter].enabled)

\* C20: when two invocations have reconciled different projects, the file
\* holds both entries, each with the auto-start set its invocation asked for.
C20_BothUpdatesKept ==
    (BothDone /\ procs[1].project # procs[2].project) =>
        /\ claudeFile.parseable
        /\ \A proc \in Procs :
               /\ procs[proc].project \in DOMAIN ProjectsOf(claudeFile.data)
               /\ AutoStart(claudeFile.data, procs[proc].project)
                      = Range(procs[proc].enabled)

=============================================================================
